---------------------------- MODULE Spec2Model ----------------------------
(***************************************************************************)
(* Model of claude_api.py: a FastAPI server that wraps the `claude` CLI.   *)
(* Each inbound HTTP request passes the add_request_id middleware, is      *)
(* validated against its pydantic model, and, for /ask and /chat, runs one *)
(* subprocess through run_claude, which races proc.communicate() against   *)
(* the configured TIMEOUT.                                                 *)
(*                                                                         *)
(* Text is modelled as sequences of one-character strings, process output  *)
(* as sequences of byte values, JSON values as tagged records.             *)
(***************************************************************************)
EXTENDS Integers, Sequences, FiniteSets, TLC

VARIABLES
    pc,          \* per request: "idle", "received", "waiting", "done"
    request,     \* per request: the inbound HTTP request (endpoint, JSON body)
    uuid,        \* per request: the uuid4 drawn by the middleware
    request_id,  \* per request: request.state.request_id
    proc,        \* per request: the subprocess of run_claude
    spawned,     \* per request: number of create_subprocess_exec calls made
    response     \* per request: the HTTP response sent to the caller

vars == <<pc, request, uuid, request_id, proc, spawned, response>>

----------------------------------------------------------------------------
(* Bounds of the model *)

\* number of requests the clients send (all may be in flight together)
NumReq == 2
\* longest stdout / stderr the enumerated subprocess outcomes write
MaxOut == 2
\* longest message list of the enumerated /chat bodies
MaxMsgs == 2

Req == 1..NumReq

----------------------------------------------------------------------------
(* Program constants *)

\* TIMEOUT = int(os.getenv("CLAUDE_API_TIMEOUT", "120"))
TIMEOUT == 120
\* request_id = str(uuid.uuid4())[:8]
IdLen == 8
\* __version__ = "1.0.0"
Version == <<"1", ".", "0", ".", "0">>
\* ENABLE_CORS default
ENABLE_CORS == FALSE

----------------------------------------------------------------------------
(* Text helpers: Python str / bytes operations used by the program *)

RECURSIVE SeqsUpTo(_, _)
\* all sequences over S of length at most n
SeqsUpTo(S, n) ==
    IF n = 0 THEN {<<>>}
    ELSE LET shorter == SeqsUpTo(S, n - 1)
         IN  shorter \cup {Append(s, x) : s \in shorter, x \in S}

\* s[:n]
Take(s, n) == SubSeq(s, 1, IF Len(s) < n THEN Len(s) ELSE n)

LowerAlpha == <<"a","b","c","d","e","f","g","h","i","j","k","l","m",
                "n","o","p","q","r","s","t","u","v","w","x","y","z">>
UpperAlpha == <<"A","B","C","D","E","F","G","H","I","J","K","L","M",
                "N","O","P","Q","R","S","T","U","V","W","X","Y","Z">>

\* str.upper() of one character
upper(c) ==
    IF \E i \in 1..Len(LowerAlpha) : LowerAlpha[i] = c
    THEN UpperAlpha[CHOOSE i \in 1..Len(LowerAlpha) : LowerAlpha[i] = c]
    ELSE c

\* str.lower() of one character
lower(c) ==
    IF \E i \in 1..Len(UpperAlpha) : UpperAlpha[i] = c
    THEN LowerAlpha[CHOOSE i \in 1..Len(UpperAlpha) : UpperAlpha[i] = c]
    ELSE c

\* a plausible slip: only the first character is touched
capitalize_first_only(s) ==
    IF s = <<>> THEN <<>>
    ELSE <<upper(s[1])>> \o SubSeq(s, 2, Len(s))

\* str.capitalize(): first character upper-cased, the rest lower-cased
capitalize(s) ==
    IF s = <<>> THEN <<>>
    ELSE <<upper(s[1])>> \o [i \in 1..(Len(s) - 1) |-> lower(s[i + 1])]

\* str.isspace() of one character
IsSpace(c) == c \in {" ", "\n", "\t", "\r"}

RECURSIVE lstrip(_)
lstrip(s) ==
    IF s # <<>> /\ IsSpace(s[1]) THEN lstrip(Tail(s)) ELSE s

RECURSIVE rstrip(_)
rstrip(s) ==
    IF s # <<>> /\ IsSpace(s[Len(s)]) THEN rstrip(SubSeq(s, 1, Len(s) - 1)) ELSE s

\* str.strip()
strip(s) == lstrip(rstrip(s))

RECURSIVE join(_, _)
\* sep.join(parts)
join(sep, parts) ==
    IF parts = <<>> THEN <<>>
    ELSE IF Len(parts) = 1 THEN parts[1]
    ELSE parts[1] \o sep \o join(sep, Tail(parts))

\* the character of a 7-bit byte
AsciiChr(b) ==
    CASE b = 10  -> "\n"
      [] b = 32  -> " "
      [] b = 98  -> "b"
      [] b = 109 -> "m"
      [] b = 111 -> "o"
      [] OTHER   -> "?"

RECURSIVE Utf8Valid(_)
\* whether bytes.decode() (UTF-8, errors="strict") accepts bs; of the
\* multi-byte forms only the two-byte one (lead 0xC2..0xDF, continuation
\* 0x80..0xBF) is covered
Utf8Valid(bs) ==
    IF bs = <<>> THEN TRUE
    ELSE IF bs[1] < 128 THEN Utf8Valid(Tail(bs))
    ELSE IF bs[1] >= 194 /\ bs[1] <= 223 /\ Len(bs) >= 2
            /\ bs[2] >= 128 /\ bs[2] <= 191
         THEN Utf8Valid(Tail(Tail(bs)))
    ELSE FALSE

RECURSIVE decode(_)
\* bytes.decode() of valid UTF-8: one character per code point
decode(bs) ==
    IF bs = <<>> THEN <<>>
    ELSE IF bs[1] < 128 THEN <<AsciiChr(bs[1])>> \o decode(Tail(bs))
    ELSE <<"U+" \o ToString((bs[1] - 192) * 64 + (bs[2] - 128))>>
            \o decode(Tail(Tail(bs)))


----------------------------------------------------------------------------
(* JSON request bodies and the pydantic models that validate them *)

\* a JSON string
Str(s) == [t |-> "str", v |-> s]
\* a field that the body does not have
Absent == [t |-> "absent", v |-> <<>>]
\* a JSON value of another type than the model wants (an object)
Obj == [t |-> "obj", v |-> <<>>]
\* a JSON array
List(xs) == [t |-> "list", v |-> xs]

IsStr(j) == j.t = "str"

\* class Message(BaseModel): role: str = "user"; content: str
MessageValid(m) ==
    /\ (m.role.t = "absent" \/ IsStr(m.role))
    /\ IsStr(m.content)

\* the Message object pydantic builds (role defaults to "user")
Message(m) ==
    [role    |-> IF m.role.t = "absent" THEN <<"u","s","e","r">> ELSE m.role.v,
     content |-> m.content.v]

\* a plausible slip: the prompt field is optional
AskRequestValid_lenient(body) == TRUE

\* class AskRequest(BaseModel): prompt: str
AskRequestValid(body) == IsStr(body.prompt)

\* the AskRequest object pydantic builds
AskRequest(body) == [prompt |-> body.prompt.v]

\* class ChatRequest(BaseModel): messages: list[Message]; system: str = ""
ChatRequestValid(body) ==
    /\ body.messages.t = "list"
    /\ \A i \in 1..Len(body.messages.v) : MessageValid(body.messages.v[i])
    /\ (body.system.t = "absent" \/ IsStr(body.system))

\* the ChatRequest object pydantic builds (system defaults to "")
ChatRequest(body) ==
    [messages |-> [i \in 1..Len(body.messages.v) |-> Message(body.messages.v[i])],
     system   |-> IF body.system.t = "absent" THEN <<>> ELSE body.system.v]

----------------------------------------------------------------------------
(* /chat: conversation -> flat prompt *)

SystemPrefix == <<"S","y","s","t","e","m",":"," ">>

\* f"System: {req.system}\n"
SystemPart(system) == SystemPrefix \o system \o <<"\n">>

\* f"{msg.role.capitalize()}: {msg.content}"
MessagePart(msg) == capitalize(msg.role) \o <<":", " ">> \o msg.content

\* prompt_parts as chat() builds it
PromptParts(req) ==
    (IF req.system # <<>> THEN <<SystemPart(req.system)>> ELSE <<>>)
        \o [i \in 1..Len(req.messages) |-> MessagePart(req.messages[i])]

\* "\n".join(prompt_parts)
ChatPrompt(req) == join(<<"\n">>, PromptParts(req))

----------------------------------------------------------------------------
(* HTTP responses *)

NoResponse == [status |-> 0]

JsonHeaders == [content_type |-> "application/json"]

\* a JSON response as the route or an exception handler inside the app builds it
JSONResponse(status, body) ==
    [status |-> status, body |-> body, headers |-> JsonHeaders]

\* raise HTTPException(status_code=..., detail={error, message, request_id})
HTTPException(status, error, message, rid) ==
    JSONResponse(status,
        [detail |-> [error |-> error, message |-> message, request_id |-> rid]])

\* pydantic rejected the body: the framework's 422 answer, built before the
\* route function is called
RequestValidationError ==
    JSONResponse(422, [detail |-> <<[type |-> "validation"]>>])

\* an exception no handler catches leaves call_next() by raising, so line 76
\* never runs; the server's outermost error handler answers in plain text
InternalServerError ==
    [status  |-> 500,
     body    |-> [text |-> "Internal Server Error"],
     headers |-> [content_type |-> "text/plain"]]

\* response.headers["X-Request-ID"] = request_id
set_request_id_header(resp, rid) ==
    [resp EXCEPT !.headers =
        [content_type |-> resp.headers.content_type, x_request_id |-> rid]]

HasRequestIdHeader(resp) == "x_request_id" \in DOMAIN resp.headers

\* the response carries {error, message, request_id}
HasErrorPayload(resp) ==
    /\ "detail" \in DOMAIN resp.body
    /\ resp.status \in {500, 504}

----------------------------------------------------------------------------
(* uuid4 and the request id *)

HexA == <<"a","a","a","a","a","a","a","a">>
HexB == <<"b","b","b","b","b","b","b","b">>

\* str(uuid.uuid4()) values the model draws from: 8 hex digits, "-", the rest
UuidPool == {p \o <<"-">> \o t : p \in {HexA, HexB}, t \in {<<"1">>, <<"2">>}}

\* str(uuid.uuid4())[:8]
new_request_id(u) == Take(u, IdLen)

----------------------------------------------------------------------------
(* The subprocess *)

NoProc == [state |-> "none"]

\* what a subprocess writes and how it exits
Outcome(code, out, err) == [returncode |-> code, stdout |-> out, stderr |-> err]

\* a plausible slip: the process is left alone on timeout
kill_forgotten(p) == p

\* proc.kill(): SIGKILL is sent, the process is terminated
kill(p) == [state |-> "killed", argv |-> p.argv]

GenericError == <<"Claude CLI returned non-zero exit code">>

TimeoutMessage == <<"Request timed out after ", ToString(TIMEOUT), " seconds">>

\* x or y, on strings
Or(x, y) == IF x # <<>> THEN x ELSE y

\* error_msg = stderr.decode().strip() or "Claude CLI returned non-zero exit code"
error_msg(stderr) == Or(strip(decode(stderr)), GenericError)

\* the body the route returns for run_claude's result
SuccessBody(endpoint, text) ==
    IF endpoint = "/ask"
    THEN [success |-> TRUE, response |-> text]
    ELSE [success |-> TRUE,
          message |-> [role |-> "assistant", content |-> text]]

\* run_claude after communicate() returned, the route's return and the
\* middleware's header: the answer to a request whose process has exited
AfterCommunicate(endpoint, p, rid) ==
    IF p.returncode # 0
    THEN IF Utf8Valid(p.stderr)
         THEN set_request_id_header(
                  HTTPException(500, "cli_error", error_msg(p.stderr), rid), rid)
         ELSE InternalServerError   \* UnicodeDecodeError, not caught
    ELSE IF Utf8Valid(p.stdout)
         THEN set_request_id_header(
                  JSONResponse(200, SuccessBody(endpoint, strip(decode(p.stdout)))),
                  rid)
         ELSE InternalServerError   \* UnicodeDecodeError, not caught

----------------------------------------------------------------------------
(* The requests clients send *)

NoRequest == [endpoint |-> "none"]

Get(path) == [endpoint |-> path]
PostAsk(prompt) == [endpoint |-> "/ask", body |-> [prompt |-> prompt]]
PostChat(messages, system) ==
    [endpoint |-> "/chat", body |-> [messages |-> messages, system |-> system]]

TextHi == <<"H","i">>
TextUser == <<"u","s","e","r">>
TextBeNice == <<"B","e"," ","n","i","c","e">>

\* messages=[{role:"user",content:"Hi"}], system="Be nice"
ChatExample ==
    PostChat(List(<<[role |-> Str(TextUser), content |-> Str(TextHi)]>>),
             Str(TextBeNice))

\* the requests of the concurrent specification
Requests ==
    { Get("/health"), Get("/version"),
      PostAsk(Str(TextHi)), PostAsk(Absent),
      ChatExample,
      PostChat(List(<<[role |-> Str(TextUser), content |-> Absent]>>), Absent) }

\* the requests of the executor specification
ExecRequests ==
    { Get("/health"), Get("/version"),
      PostAsk(Str(TextHi)), PostAsk(Absent), PostAsk(Obj),
      ChatExample, PostChat(Absent, Absent) }

\* roles and contents of the enumerated conversations
Roles == { Absent, Str(<<>>), Str(<<"u","U">>), Str(TextUser) }
Contents == { Str(<<>>), Str(TextHi) }
Systems == { Absent, Str(<<>>), Str(TextBeNice) }

\* the requests of the prompt-assembly specification
ChatRequests ==
    { Get("/health"), Get("/version"), PostAsk(Str(TextHi)),
      PostChat(Obj, Absent),
      PostChat(List(<<[role |-> Obj, content |-> Str(TextHi)]>>), Absent),
      PostChat(List(<<>>), Obj) }
    \cup { PostChat(List(ms), sys) :
             ms \in SeqsUpTo([role : Roles, content : Contents], MaxMsgs),
             sys \in Systems }

\* outcomes of the subprocess in the concurrent specification
Outcomes ==
    { Outcome(0, <<32, 98, 10>>, <<>>),          \* prints " b\n", exits 0
      Outcome(1, <<>>, <<98, 111, 111, 109>>),   \* prints "boom" to stderr, exits 1
      Outcome(1, <<>>, <<>>) }                   \* prints nothing, exits 1

\* bytes of the enumerated outputs: space, "b", and the two bytes of U+00E9
OutBytes == {32, 98, 195, 169}

\* outcomes of the subprocess in the executor specification
ExecOutcomes ==
    { Outcome(code, out, err) :
        code \in {0, 1},
        out \in SeqsUpTo(OutBytes, MaxOut),
        err \in SeqsUpTo(OutBytes, MaxOut) }

----------------------------------------------------------------------------
(* The state machine *)

Init ==
    /\ pc = [r \in Req |-> "idle"]
    /\ request = [r \in Req |-> NoRequest]
    /\ uuid = [r \in Req |-> <<>>]
    /\ request_id = [r \in Req |-> <<>>]
    /\ proc = [r \in Req |-> NoProc]
    /\ spawned = [r \in Req |-> 0]
    /\ response = [r \in Req |-> NoResponse]

\* the request was parsed and validated: the route function may be called
WellFormed(q) ==
    \/ q.endpoint = "/ask" /\ AskRequestValid(q.body)
    \/ q.endpoint = "/chat" /\ ChatRequestValid(q.body)

\* the prompt the route hands to run_claude
PromptOf(q) ==
    IF q.endpoint = "/ask"
    THEN AskRequest(q.body).prompt
    ELSE ChatPrompt(ChatRequest(q.body))

\* the response reaches the client and the request is over
Send(r, resp) ==
    /\ response' = [response EXCEPT ![r] = resp]
    /\ pc' = [pc EXCEPT ![r] = "done"]

\* add_request_id up to `await call_next(request)`: uuid4 never returns the
\* same value twice; q is the client's request, u the uuid drawn
add_request_id(r, q, u) ==
    /\ pc[r] = "idle"
    /\ \A r2 \in Req : uuid[r2] # u
    /\ request' = [request EXCEPT ![r] = q]
    /\ uuid' = [uuid EXCEPT ![r] = u]
    /\ request_id' = [request_id EXCEPT ![r] = new_request_id(u)]
    /\ pc' = [pc EXCEPT ![r] = "received"]
    /\ UNCHANGED <<proc, spawned, response>>

\* GET /health
health(r) ==
    /\ pc[r] = "received"
    /\ request[r].endpoint = "/health"
    /\ Send(r, set_request_id_header(
                   JSONResponse(200, [status |-> "ok"]), request_id[r]))
    /\ UNCHANGED <<request, uuid, request_id, proc, spawned>>

\* GET /version
version(r) ==
    /\ pc[r] = "received"
    /\ request[r].endpoint = "/version"
    /\ Send(r, set_request_id_header(
                   JSONResponse(200, [version |-> Version, timeout |-> TIMEOUT,
                                      cors_enabled |-> ENABLE_CORS]),
                   request_id[r]))
    /\ UNCHANGED <<request, uuid, request_id, proc, spawned>>

\* POST /ask or /chat with a body its pydantic model rejects
validation_error(r) ==
    /\ pc[r] = "received"
    /\ request[r].endpoint \in {"/ask", "/chat"}
    /\ ~WellFormed(request[r])
    /\ Send(r, set_request_id_header(RequestValidationError, request_id[r]))
    /\ UNCHANGED <<request, uuid, request_id, proc, spawned>>

\* a plausible slip: one subprocess at a time
create_subprocess_exec_serialized(r, prompt) ==
    /\ \A r2 \in Req : proc[r2].state # "running"
    /\ proc' = [proc EXCEPT ![r] =
                  [state |-> "running", argv |-> <<"claude", "-p", prompt>>]]
    /\ spawned' = [spawned EXCEPT ![r] = @ + 1]

\* proc = await asyncio.create_subprocess_exec('claude', '-p', prompt, ...)
create_subprocess_exec(r, prompt) ==
    /\ proc' = [proc EXCEPT ![r] =
                  [state |-> "running", argv |-> <<"claude", "-p", prompt>>]]
    /\ spawned' = [spawned EXCEPT ![r] = @ + 1]

\* POST /ask: ask() calls run_claude, which starts the subprocess and waits
ask(r) ==
    /\ pc[r] = "received"
    /\ request[r].endpoint = "/ask"
    /\ WellFormed(request[r])
    /\ create_subprocess_exec(r, PromptOf(request[r]))
    /\ pc' = [pc EXCEPT ![r] = "waiting"]
    /\ UNCHANGED <<request, uuid, request_id, response>>

\* POST /chat: chat() assembles the prompt and calls run_claude
chat(r) ==
    /\ pc[r] = "received"
    /\ request[r].endpoint = "/chat"
    /\ WellFormed(request[r])
    /\ create_subprocess_exec(r, PromptOf(request[r]))
    /\ pc' = [pc EXCEPT ![r] = "waiting"]
    /\ UNCHANGED <<request, uuid, request_id, response>>

\* create_subprocess_exec raises (FileNotFoundError, PermissionError):
\* run_claude has no handler for it and no process exists
spawn_error(r) ==
    /\ pc[r] = "received"
    /\ request[r].endpoint \in {"/ask", "/chat"}
    /\ WellFormed(request[r])
    /\ spawned' = [spawned EXCEPT ![r] = @ + 1]
    /\ Send(r, InternalServerError)
    /\ UNCHANGED <<request, uuid, request_id, proc>>

\* the subprocess writes its output and exits by itself
proc_exit(r, o) ==
    /\ pc[r] = "waiting"
    /\ proc[r].state = "running"
    /\ proc' = [proc EXCEPT ![r] =
                  [state |-> "exited", argv |-> @.argv,
                   returncode |-> o.returncode,
                   stdout |-> o.stdout, stderr |-> o.stderr]]
    /\ UNCHANGED <<pc, request, uuid, request_id, spawned, response>>

\* wait_for(proc.communicate()) returns before the timeout
communicate_returns(r) ==
    /\ pc[r] = "waiting"
    /\ proc[r].state = "exited"
    /\ Send(r, AfterCommunicate(request[r].endpoint, proc[r], request_id[r]))
    /\ UNCHANGED <<request, uuid, request_id, proc, spawned>>

\* a plausible slip: the request is tried again after a timeout
timeout_retry(r) ==
    /\ pc[r] = "waiting"
    /\ proc[r].state = "running"
    /\ spawned[r] < 2
    /\ spawned' = [spawned EXCEPT ![r] = @ + 1]
    /\ UNCHANGED <<pc, request, uuid, request_id, proc, response>>

\* except asyncio.TimeoutError: the process is still running when TIMEOUT
\* seconds have passed
timeout(r) ==
    /\ pc[r] = "waiting"
    /\ proc[r].state = "running"
    /\ proc' = [proc EXCEPT ![r] = kill(@)]
    /\ Send(r, set_request_id_header(
                   HTTPException(504, "timeout", TimeoutMessage, request_id[r]),
                   request_id[r]))
    /\ UNCHANGED <<request, uuid, request_id, spawned>>

\* what request r can do next, whatever the other requests are doing
Handle(r) ==
    \/ health(r)
    \/ version(r)
    \/ validation_error(r)
    \/ ask(r)
    \/ chat(r)
    \/ spawn_error(r)
    \/ communicate_returns(r)
    \/ timeout(r)

Next ==
    \/ \E r \in Req, q \in Requests, u \in UuidPool : add_request_id(r, q, u)
    \/ \E r \in Req : health(r)
    \/ \E r \in Req : version(r)
    \/ \E r \in Req : validation_error(r)
    \/ \E r \in Req : ask(r)
    \/ \E r \in Req : chat(r)
    \/ \E r \in Req : spawn_error(r)
    \/ \E r \in Req, o \in Outcomes : proc_exit(r, o)
    \/ \E r \in Req : communicate_returns(r)
    \/ \E r \in Req : timeout(r)

Spec == Init /\ [][Next]_vars

\* one request at a time, every output the subprocess can write
NextExec ==
    \/ \E q \in ExecRequests, u \in UuidPool : add_request_id(1, q, u)
    \/ health(1)
    \/ version(1)
    \/ validation_error(1)
    \/ ask(1)
    \/ chat(1)
    \/ spawn_error(1)
    \/ \E o \in ExecOutcomes : proc_exit(1, o)
    \/ communicate_returns(1)
    \/ timeout(1)

SpecExec == Init /\ [][NextExec]_vars

\* one request at a time, every conversation of the enumerated shapes
NextChat ==
    \/ \E q \in ChatRequests, u \in UuidPool : add_request_id(1, q, u)
    \/ health(1)
    \/ version(1)
    \/ validation_error(1)
    \/ ask(1)
    \/ chat(1)
    \/ spawn_error(1)
    \/ \E o \in Outcomes : proc_exit(1, o)
    \/ communicate_returns(1)
    \/ timeout(1)

SpecChat == Init /\ [][NextChat]_vars

----------------------------------------------------------------------------
(* Vocabulary of the properties *)

Done(r) == pc[r] = "done"

InFlight(r) == pc[r] \in {"received", "waiting"}

IsPrompted(q) == q.endpoint \in {"/ask", "/chat"}

\* a required field is missing or a field has the wrong type
Malformed(q) ==
    \/ q.endpoint = "/ask" /\ q.body.prompt.t # "str"
    \/ /\ q.endpoint = "/chat"
       /\ \/ q.body.messages.t # "list"
          \/ q.body.system.t \notin {"absent", "str"}
          \/ \E i \in 1..Len(q.body.messages.v) :
                \/ q.body.messages.v[i].content.t # "str"
                \/ q.body.messages.v[i].role.t \notin {"absent", "str"}

\* the response is the error payload of the given kind
IsError(resp, kind) ==
    /\ HasErrorPayload(resp)
    /\ resp.body.detail.error = kind

IsSuccess(resp) ==
    /\ resp.status = 200
    /\ "success" \in DOMAIN resp.body

ExitedWith(p, code) == p.state = "exited" /\ p.returncode = code

----------------------------------------------------------------------------
(* C1: when an /ask or /chat request ends in an error response, its        *)
(* subprocess is not running any more: it was killed, has exited, or was   *)
(* never started; after a TIMEOUT response it has been killed.             *)
C1_ErrorLeavesNoRunningProcess ==
    \A r \in Req :
        (Done(r) /\ IsPrompted(request[r]) /\ response[r].status >= 500)
            => /\ proc[r].state \in {"none", "exited", "killed"}
               /\ (IsError(response[r], "timeout") => proc[r].state = "killed")

C1_Witness ==
    \E r \in Req :
        /\ Done(r)
        /\ IsError(response[r], "timeout")
        /\ proc[r].state = "killed"

(* C2: a well-formed /ask or /chat request makes exactly one subprocess    *)
(* invocation: never a second one, and once its handler ran, one; a        *)
(* request that ended in success, TIMEOUT or PROCESS_ERROR had a process.  *)
C2_ExactlyOneInvocation ==
    \A r \in Req :
        /\ spawned[r] <= 1
        /\ (IsPrompted(request[r]) /\ ~Malformed(request[r])
              /\ pc[r] \in {"waiting", "done"}) => spawned[r] = 1
        /\ (Done(r) /\ (\/ IsSuccess(response[r])
                        \/ IsError(response[r], "timeout")
                        \/ IsError(response[r], "cli_error")))
              => (spawned[r] = 1 /\ proc[r].state # "none")

C2_Witness ==
    \E r1, r2 \in Req :
        /\ Done(r1) /\ IsSuccess(response[r1]) /\ spawned[r1] = 1
        /\ Done(r2) /\ IsError(response[r2], "timeout") /\ spawned[r2] = 1

(* C3 (as claimed): an /ask request answers {success: true, response: R}   *)
(* exactly when its subprocess exited with code zero, and R is then the    *)
(* trimmed standard output.                                                *)
C3_SuccessIffExitZero ==
    \A r \in Req :
        (Done(r) /\ request[r].endpoint = "/ask" /\ ~Malformed(request[r]))
            => /\ IsSuccess(response[r]) <=> ExitedWith(proc[r], 0)
               /\ IsSuccess(response[r])
                    => response[r].body.response = strip(decode(proc[r].stdout))

(* C4 (as claimed): a subprocess that exits non-zero makes the request     *)
(* fail with a PROCESS_ERROR whose message is the trimmed standard error,  *)
(* or a generic message when that is empty; the message is never empty.    *)
C4_NonZeroExitIsProcessError ==
    \A r \in Req :
        (Done(r) /\ proc[r].state = "exited" /\ proc[r].returncode # 0)
            => /\ IsError(response[r], "cli_error")
               /\ response[r].body.detail.message # <<>>
               /\ response[r].body.detail.message =
                     (IF strip(decode(proc[r].stderr)) # <<>>
                      THEN strip(decode(proc[r].stderr))
                      ELSE GenericError)

(* C5 (as claimed): a request whose subprocess could not be started ends   *)
(* in an error response with a kind other than TIMEOUT and PROCESS_ERROR,  *)
(* a message and the request's correlation id.                             *)
C5_SpawnErrorIsStructured ==
    \A r \in Req :
        (Done(r) /\ spawned[r] = 1 /\ proc[r].state = "none")
            => /\ HasErrorPayload(response[r])
               /\ response[r].body.detail.error \notin {"timeout", "cli_error"}
               /\ response[r].body.detail.message # <<>>
               /\ response[r].body.detail.request_id = request_id[r]

(* C6 (as claimed): every response carries the request's correlation id in *)
(* a header, and an error payload's request_id equals it.                  *)
C6_EveryResponseHasRequestId ==
    \A r \in Req :
        Done(r)
            => /\ HasRequestIdHeader(response[r])
               /\ response[r].headers.x_request_id = request_id[r]
               /\ HasErrorPayload(response[r])
                    => response[r].body.detail.request_id
                          = response[r].headers.x_request_id

(* C7: a malformed /ask or /chat request never gets a subprocess, and its  *)
(* response is the validation error, not one of the executor's errors.     *)
C7_MalformedNeverSpawns ==
    \A r \in Req :
        Malformed(request[r])
            => /\ spawned[r] = 0
               /\ proc[r].state = "none"
               /\ pc[r] # "waiting"
               /\ Done(r) => /\ response[r].status = 422
                             /\ ~HasErrorPayload(response[r])

C7_Witness ==
    \E r \in Req :
        /\ Done(r)
        /\ Malformed(request[r])
        /\ response[r].status = 422
        /\ spawned[r] = 0

\* the role with only its first character upper-cased
FirstUpper(s) == [i \in 1..Len(s) |-> IF i = 1 THEN upper(s[i]) ELSE s[i]]

\* the lines of the prompt as claimed
ClaimedLines(req) ==
    (IF req.system # <<>> THEN <<SystemPrefix \o req.system>> ELSE <<>>)
        \o [i \in 1..Len(req.messages) |->
              FirstUpper(req.messages[i].role) \o <<":", " ">>
                  \o req.messages[i].content]

RECURSIVE OneNewlineBetween(_)
OneNewlineBetween(lines) ==
    IF lines = <<>> THEN <<>>
    ELSE lines[1] \o (IF Len(lines) > 1
                      THEN <<"\n">> \o OneNewlineBetween(Tail(lines))
                      ELSE <<>>)

(* C8 (as claimed): the prompt of a /chat request is its lines, "System:   *)
(* <system>" when system is not empty, then "<Role>: <content>" per        *)
(* message with only the role's first character upper-cased, with one      *)
(* newline between consecutive lines and none at the end.                  *)
C8_PromptAsClaimed ==
    \A r \in Req :
        (request[r].endpoint = "/chat" /\ proc[r].state # "none")
            => proc[r].argv[3] = OneNewlineBetween(ClaimedLines(ChatRequest(request[r].body)))

\* the role as str.capitalize() leaves it
UpperThenLower(s) ==
    [i \in 1..Len(s) |-> IF i = 1 THEN upper(s[i]) ELSE lower(s[i])]

\* the message lines of the amended claim
AmendedLines(req) ==
    [i \in 1..Len(req.messages) |->
        UpperThenLower(req.messages[i].role) \o <<":", " ">>
            \o req.messages[i].content]

(* C8 (amended): the system line, when system is not empty, is "System:    *)
(* <system>" followed by a newline of its own, so that an empty line       *)
(* separates it from the first message and a prompt without messages ends  *)
(* in that newline; each role has its first character upper-cased and the  *)
(* others lower-cased; the lines are joined by one newline.                *)
C8_PromptAmended ==
    \A r \in Req :
        (request[r].endpoint = "/chat" /\ proc[r].state # "none")
            => LET req == ChatRequest(request[r].body)
                   msgs == OneNewlineBetween(AmendedLines(req))
               IN  proc[r].argv[3] =
                      (IF req.system = <<>> THEN msgs
                       ELSE SystemPrefix \o req.system \o <<"\n">>
                              \o (IF req.messages = <<>> THEN <<>>
                                  ELSE <<"\n">> \o msgs))

C8_Witness ==
    \E r \in Req :
        /\ request[r] = ChatExample
        /\ proc[r].state # "none"
        /\ proc[r].argv[3] =
              <<"S","y","s","t","e","m",":"," ","B","e"," ","n","i","c","e",
                "\n","\n","U","s","e","r",":"," ","H","i">>

(* C9 (as claimed): two requests in flight at the same time never hold the *)
(* same request id.                                                        *)
C9_ConcurrentIdsDiffer ==
    \A r1, r2 \in Req :
        (r1 # r2 /\ InFlight(r1) /\ InFlight(r2))
            => request_id[r1] # request_id[r2]

(* C10: while a request waits on its running subprocess, every other       *)
(* request can take its own next step: be accepted, be answered, start its *)
(* own subprocess, see it exit and complete.                               *)
C10_NoSerialization ==
    \A r1, r2 \in Req :
        (r1 # r2 /\ pc[r1] = "waiting" /\ proc[r1].state = "running")
            => /\ pc[r2] = "idle"
                    => ENABLED (\E q \in Requests, u \in UuidPool :
                                    add_request_id(r2, q, u))
               /\ pc[r2] = "received" => ENABLED Handle(r2)
               /\ (pc[r2] = "received" /\ IsPrompted(request[r2])
                      /\ ~Malformed(request[r2]))
                    => ENABLED (ask(r2) \/ chat(r2))
               /\ (pc[r2] = "waiting" /\ proc[r2].state = "running")
                    => ENABLED (\E o \in Outcomes : proc_exit(r2, o))
               /\ (pc[r2] = "waiting" /\ proc[r2].state = "exited")
                    => ENABLED communicate_returns(r2)

C10_Witness ==
    \E r1, r2 \in Req :
        /\ r1 # r2
        /\ pc[r1] = "waiting" /\ proc[r1].state = "running"
        /\ pc[r2] = "waiting" /\ proc[r2].state = "running"

============================================================================
